---- MODULE Spec2Model ----
(***************************************************************************)
(* The two BigQuery sample scripts of bigquery/cloud-client:               *)
(*   async_query_params.py  main -> async_query_{named,positional}_params  *)
(*                          -> begin, wait_for_job, print_results          *)
(*   sync_query_params.py   sync_query_params -> run, run, pagination loop *)
(* The BigQuery client library is the external collaborator: every answer  *)
(* it gives (job state, error fields, pages, continuation tokens, a        *)
(* transport error) is a nondeterministic choice.  `trace` is the history  *)
(* of the calls the scripts make, in program order.                        *)
(***************************************************************************)
EXTENDS Integers, Sequences, FiniteSets

\* ---------------------------------------------------------------- bounds
\* The collaborator reports a non-DONE state on at most MaxPending reloads.
MaxPending == 2
\* A result set has at most MaxPages pages of at most MaxPageRows rows each.
MaxPages == 3
MaxPageRows == 2

\* ------------------------------------------------------- Python values
None == "None"
EmptyStr == ""
EmptyDict == "{}"

\* Python truthiness of the values tested by `if job.error_result:` and
\* `if not page_token:`  (None, '' and {} are false).
Falsy(v) == v \in {None, EmptyStr, EmptyDict}

\* max_results=10 of both fetch_data calls.
MaxResults == 10

\* time.sleep(1)
SleepSeconds == 1

JobStates == {"PENDING", "RUNNING", "DONE"}
\* job.error_result / job.errors as the collaborator may report them.
ErrorPayloads == {None, EmptyDict, "E1", "E2"}

\* Opaque continuation tokens: Token(k) is returned with page k and asks for
\* page k+1.
TokenNames == <<"tok1", "tok2", "tok3", "tok4", "tok5", "tok6">>
Token(k) == TokenNames[k]

VARIABLES
    script,            \* "async" | "sync": which script runs
    use_named_params,  \* main's argument (async script)
    pc,                \* position of the single thread of control
    job,               \* query_job's state, error_result, errors
    nPending,          \* history: reloads that reported a non-DONE state
    pages,             \* the collaborator's result set behind query_results
    page_token,        \* local of the pagination loop
    rows,              \* local of the pagination loop
    idx,               \* position of `for row in rows`
    exc,               \* the exception that ended the run, if any
    trace              \* history of collaborator calls, sleeps and prints

vars == <<script, use_named_params, pc, job, nPending, pages, page_token,
          rows, idx, exc, trace>>

NoExc == [kind |-> None, payload |-> None]
NoJob == [state |-> None, error_result |-> None, errors |-> None]

Event(op, a, n) == [op |-> op, a |-> a, n |-> n]

\* ------------------------------------------------------ the collaborator
RECURSIVE SumBefore(_, _)
SumBefore(sizes, k) ==
    IF k <= 1 THEN 0 ELSE sizes[k - 1] + SumBefore(sizes, k - 1)

\* A result set of rows 1..n cut into pages of the given sizes; every page
\* but the last carries a continuation token, the last carries `last`.
PagesOf(sizes, last) ==
    [k \in 1..Len(sizes) |->
        [rows  |-> [i \in 1..sizes[k] |-> SumBefore(sizes, k) + i],
         token |-> IF k < Len(sizes) THEN Token(k) ELSE last]]

ResultSets ==
    { PagesOf(s, l) :
        s \in UNION { [1..n -> 0..MaxPageRows] : n \in 1..MaxPages },
        l \in {None, EmptyStr} }

\* The page the collaborator serves for a continuation token: the first page
\* for an absent/empty token, otherwise the page after the one that returned
\* the token.
PageIndex(tok) ==
    IF Falsy(tok) \/ ~(\E k \in 1..Len(pages) : pages[k].token = tok)
    THEN 1
    ELSE 1 + (CHOOSE k \in 1..Len(pages) : pages[k].token = tok)

FetchData(tok) ==
    LET k == PageIndex(tok) IN
    IF k \in 1..Len(pages) THEN pages[k] ELSE [rows |-> <<>>, token |-> None]

\* ------------------------------------------------------------------ Init
Init ==
    /\ script \in {"async", "sync"}
    /\ use_named_params \in (IF script = "async" THEN BOOLEAN ELSE {FALSE})
    /\ pc = IF script = "async" THEN "main" ELSE "run_positional"
    /\ job = NoJob
    /\ nPending = 0
    /\ pages = <<>>
    /\ page_token = None
    /\ rows = <<>>
    /\ idx = 1
    /\ exc = NoExc
    /\ trace = <<>>

\* Mutant: the exception is caught and the call is made again.
PropagateSwallowed(e) ==
    /\ exc' = [kind |-> e, payload |-> None]
    /\ pc' = pc

\* A collaborator call that raises: nothing catches it, the run ends.
Propagate(e) ==
    /\ exc' = [kind |-> e, payload |-> None]
    /\ pc' = "raised"


Emit(e) == trace' = Append(trace, e)

\* Mutant: main's test of use_named_params inverted.
MainInverted ==
    /\ pc = "main"
    /\ pc' = IF use_named_params THEN "begin_positional" ELSE "begin_named"
    /\ UNCHANGED <<script, use_named_params, job, nPending, pages,
                   page_token, rows, idx, exc, trace>>

\* ------------------------------------------- async_query_params.py: main
Main ==
    /\ pc = "main"
    /\ pc' = IF use_named_params THEN "begin_named" ELSE "begin_positional"
    /\ UNCHANGED <<script, use_named_params, job, nPending, pages,
                   page_token, rows, idx, exc, trace>>

\* The job as query_job.begin() leaves it: the state of the insert response,
\* no error yet.
Begun(s) == [state |-> s, error_result |-> None, errors |-> None]

\* async_query_positional_params up to and including query_job.begin()
AsyncBeginPositional ==
    /\ pc = "begin_positional"
    /\ Emit(Event("begin", "positional", 0))
    /\ \E s \in JobStates : job' = Begun(s)
    /\ pc' = "reload"
    /\ UNCHANGED <<script, use_named_params, nPending, pages, page_token,
                   rows, idx, exc>>

\* async_query_named_params up to and including query_job.begin()
AsyncBeginNamed ==
    /\ pc = "begin_named"
    /\ Emit(Event("begin", "named", 0))
    /\ \E s \in JobStates : job' = Begun(s)
    /\ pc' = "reload"
    /\ UNCHANGED <<script, use_named_params, nPending, pages, page_token,
                   rows, idx, exc>>

\* query_job.begin() raises (the request is rejected or the transport fails)
BeginError ==
    /\ pc \in {"begin_positional", "begin_named"}
    /\ Emit(Event("begin",
                  IF pc = "begin_named" THEN "named" ELSE "positional", 0))
    /\ Propagate("TransportError")
    /\ UNCHANGED <<script, use_named_params, job, nPending, pages,
                   page_token, rows, idx>>

\* ------------------------------------------------------------ wait_for_job
\* job.reload(): the collaborator overwrites the job's fields.
Reload ==
    /\ pc = "reload"
    /\ Emit(Event("reload", None, 0))
    /\ \E s \in JobStates, er \in ErrorPayloads, es \in ErrorPayloads :
          /\ s # "DONE" => nPending < MaxPending
          /\ job' = [state |-> s, error_result |-> er, errors |-> es]
          /\ nPending' = IF s # "DONE" THEN nPending + 1 ELSE nPending
    /\ pc' = "check"
    /\ UNCHANGED <<script, use_named_params, pages, page_token, rows, idx,
                   exc>>

\* job.reload() raises
ReloadError ==
    /\ pc = "reload"
    /\ Emit(Event("reload", None, 0))
    /\ Propagate("TransportError")
    /\ UNCHANGED <<script, use_named_params, job, nPending, pages,
                   page_token, rows, idx>>

\* Mutant: the loop ends on the first status check whatever the state.
JobDoneAlways(j) == TRUE

\* Mutant: an error payload ends the loop whatever the state.
JobDoneOrError(j) == j.state = "DONE" \/ ~Falsy(j.error_result)

\* if job.state == 'DONE':
JobDone(j) == j.state = "DONE"

\* if job.error_result:
JobFailed(j) == ~Falsy(j.error_result)

\* Mutant: the exception carries the field that was tested.
RaisedErrorResult(j) == [kind |-> "RuntimeError", payload |-> j.error_result]

\* raise RuntimeError(job.errors)
Raised(j) == [kind |-> "RuntimeError", payload |-> j.errors]

WaitRaise ==
    /\ pc = "check"
    /\ JobDone(job)
    /\ JobFailed(job)
    /\ exc' = Raised(job)
    /\ pc' = "raised"
    /\ UNCHANGED <<script, use_named_params, job, nPending, pages,
                   page_token, rows, idx, trace>>

WaitReturn ==
    /\ pc = "check"
    /\ JobDone(job)
    /\ ~JobFailed(job)
    /\ pc' = "results"
    /\ UNCHANGED <<script, use_named_params, job, nPending, pages,
                   page_token, rows, idx, exc, trace>>

WaitContinue ==
    /\ pc = "check"
    /\ ~JobDone(job)
    /\ pc' = "sleep"
    /\ UNCHANGED <<script, use_named_params, job, nPending, pages,
                   page_token, rows, idx, exc, trace>>

\* Mutant: the loop polls again without waiting.
SleepSkipped ==
    /\ pc = "sleep"
    /\ pc' = "reload"
    /\ UNCHANGED <<script, use_named_params, job, nPending, pages,
                   page_token, rows, idx, exc, trace>>

\* time.sleep(1)
Sleep ==
    /\ pc = "sleep"
    /\ Emit(Event("sleep", None, SleepSeconds))
    /\ pc' = "reload"
    /\ UNCHANGED <<script, use_named_params, job, nPending, pages,
                   page_token, rows, idx, exc>>

\* print_results(query_job.results()): the results handle and page_token = None
Results ==
    /\ pc = "results"
    /\ pages' \in ResultSets
    /\ page_token' = None
    /\ pc' = "fetch"
    /\ UNCHANGED <<script, use_named_params, job, nPending, rows, idx, exc,
                   trace>>

\* ------------------------------------- sync_query_params.py: the two queries
SyncRunPositional ==
    /\ pc = "run_positional"
    /\ trace' = trace \o <<Event("run", "positional", 0),
                           Event("message", "Positional parameter query completed", 0)>>
    /\ pc' = "run_named"
    /\ UNCHANGED <<script, use_named_params, job, nPending, pages,
                   page_token, rows, idx, exc>>

SyncRunNamed ==
    /\ pc = "run_named"
    /\ trace' = trace \o <<Event("run", "named", 0),
                           Event("message", "Named parameter query completed", 0)>>
    /\ pages' \in ResultSets
    /\ page_token' = None
    /\ pc' = "fetch"
    /\ UNCHANGED <<script, use_named_params, job, nPending, rows, idx, exc>>

\* query_results.run() raises
RunError ==
    /\ pc \in {"run_positional", "run_named"}
    /\ Emit(Event("run",
                  IF pc = "run_named" THEN "named" ELSE "positional", 0))
    /\ Propagate("TransportError")
    /\ UNCHANGED <<script, use_named_params, job, nPending, pages,
                   page_token, rows, idx>>

\* ------------------- the pagination loop (print_results / sync_query_params)
\* Mutant: the continuation token is not passed on.
FetchRequestNoToken(tok) == Event("fetch", None, 10)

\* fetch_data(max_results=10, page_token=page_token)
FetchRequest(tok) == Event("fetch", tok, MaxResults)

\* Mutant: every page is appended to one growing buffer.
FetchBuffered ==
    /\ pc = "fetch"
    /\ LET page == FetchData(page_token)
       IN /\ Emit(Event("fetch", page_token, 10))
          /\ rows' = rows \o page.rows
          /\ page_token' = page.token
    /\ pc' = "for"
    /\ UNCHANGED <<script, use_named_params, job, nPending, pages, idx, exc>>

\* rows, total_rows, page_token = query_results.fetch_data(...)
Fetch ==
    /\ pc = "fetch"
    /\ LET req  == FetchRequest(page_token)
           page == FetchData(req.a)
       IN /\ Emit(req)
          /\ rows' = page.rows
          /\ page_token' = page.token
    /\ idx' = 1
    /\ pc' = "for"
    /\ UNCHANGED <<script, use_named_params, job, nPending, pages, exc>>

\* fetch_data raises
FetchError ==
    /\ pc = "fetch"
    /\ Emit(FetchRequest(page_token))
    /\ Propagate("TransportError")
    /\ UNCHANGED <<script, use_named_params, job, nPending, pages,
                   page_token, rows, idx>>

\* for row in rows: print(row)
PrintRow ==
    /\ pc = "for"
    /\ idx <= Len(rows)
    /\ Emit(Event("print", "row", rows[idx]))
    /\ idx' = idx + 1
    /\ UNCHANGED <<script, use_named_params, pc, job, nPending, pages,
                   page_token, rows, exc>>

\* Mutant: only None ends the loop, an empty token does not.
LastPageOnlyNone(tok) == tok = None

\* if not page_token:
LastPage(tok) == Falsy(tok)

\* break
PageBreak ==
    /\ pc = "for"
    /\ idx > Len(rows)
    /\ LastPage(page_token)
    /\ pc' = "done"
    /\ UNCHANGED <<script, use_named_params, job, nPending, pages,
                   page_token, rows, idx, exc, trace>>

\* back to `while True:`
PageContinue ==
    /\ pc = "for"
    /\ idx > Len(rows)
    /\ ~LastPage(page_token)
    /\ pc' = "fetch"
    /\ UNCHANGED <<script, use_named_params, job, nPending, pages,
                   page_token, rows, idx, exc, trace>>

Next ==
    \/ Main
    \/ AsyncBeginPositional
    \/ AsyncBeginNamed
    \/ BeginError
    \/ Reload
    \/ ReloadError
    \/ WaitRaise
    \/ WaitReturn
    \/ WaitContinue
    \/ Sleep
    \/ Results
    \/ SyncRunPositional
    \/ SyncRunNamed
    \/ RunError
    \/ Fetch
    \/ FetchError
    \/ PrintRow
    \/ PageBreak
    \/ PageContinue

Spec == Init /\ [][Next]_vars


\* ------------------------------------------------------ reading the trace
Positions(op) == { i \in 1..Len(trace) : trace[i].op = op }
Count(op) == Cardinality(Positions(op))

IsPrint(e) == e.op = "print"
IsSubmission(e) == e.op \in {"begin", "run"}

\* The rows printed so far, in emission order.
PrintedRows ==
    LET p == SelectSeq(trace, IsPrint) IN [i \in 1..Len(p) |-> p[i].n]

\* The submission requests made so far, in order.
Submissions == SelectSeq(trace, IsSubmission)

RECURSIVE Flatten(_)
Flatten(ps) ==
    IF ps = <<>> THEN <<>>
    ELSE Flatten(SubSeq(ps, 1, Len(ps) - 1)) \o ps[Len(ps)].rows

IsPrefix(s, t) == Len(s) <= Len(t) /\ s = SubSeq(t, 1, Len(s))

\* f1 and f2 are the positions of two consecutive fetch_data calls.
ConsecutiveFetches(f1, f2) ==
    /\ f1 \in Positions("fetch")
    /\ f2 \in Positions("fetch")
    /\ f1 < f2
    /\ ~(\E g \in Positions("fetch") : f1 < g /\ g < f2)

\* What the collaborator answered to the fetch_data call at position f.
Returned(f) == FetchData(trace[f].a)

\* The rows printed strictly between positions lo and hi of the trace.
PrintedBetween(lo, hi) ==
    LET seg == SubSeq(trace, lo + 1, hi - 1)
        p   == SelectSeq(seg, IsPrint)
    IN [i \in 1..Len(p) |-> p[i].n]

Paginating == pc \in {"fetch", "for", "done"}
WaitReturned == script = "async" /\ pc \in {"results", "fetch", "for", "done"}


\* =================================================================== claims

\* C1: when wait_for_job returns successfully after the collaborator reported
\* a non-DONE state on N status checks, the run has made exactly N+1
\* job.reload calls and exactly N time.sleep(1) calls, and after begin the
\* trace alternates reload, sleep, reload, ..., so that every sleep lies
\* between two consecutive reloads.
C1_PollCount ==
    (script = "async" /\ pc = "results") =>
        /\ Count("reload") = nPending + 1
        /\ Count("sleep") = nPending
        /\ Len(trace) = 2 * nPending + 2
        /\ \A i \in 2..Len(trace) :
              /\ i % 2 = 0 => trace[i].op = "reload"
              /\ i % 2 = 1 => trace[i] = Event("sleep", None, 1)

C1_Witness ==
    script = "async" /\ pc = "results" /\ nPending = 2

\* C2 as stated: when the job is DONE with a non-empty error payload the run
\* fails with an exception carrying that exact payload (job.error_result)
\* and no fetch_data call was made.
C2_Original ==
    exc.kind = "RuntimeError" =>
        /\ exc.payload = job.error_result
        /\ Count("fetch") = 0

\* C2 amended: when the job is DONE with a non-empty error_result the run
\* fails with RuntimeError carrying job.errors as the last status check
\* reported it (not error_result), no fetch_data call was made, and a run
\* whose wait_for_job returned saw an empty error_result.
C2_FailureCarriesErrors ==
    /\ exc.kind = "RuntimeError" =>
          /\ job.state = "DONE"
          /\ ~Falsy(job.error_result)
          /\ exc.payload = job.errors
          /\ Count("fetch") = 0
          /\ pc = "raised"
    /\ WaitReturned => Falsy(job.error_result)

C2_Witness ==
    /\ exc.kind = "RuntimeError"
    /\ job.error_result = "E1"
    /\ exc.payload = "E2"
    /\ nPending = 1

\* C3: the rows printed by the pagination loop are at every moment a prefix
\* of the concatenation of the collaborator's pages in page order, and when
\* the loop has ended they are exactly that concatenation.
C3_AllRowsInOrder ==
    /\ IsPrefix(PrintedRows, Flatten(pages))
    /\ pc = "done" => PrintedRows = Flatten(pages)

C3_Witness ==
    /\ pc = "done"
    /\ Len(pages) = 3
    /\ Len(pages[1].rows) = 2
    /\ Len(pages[3].rows) = 1
    /\ PrintedRows = <<1, 2, 3>>

\* C4: in an async run the first request is the submission (begin), every
\* reload comes after it, every fetch_data comes after every reload, and a
\* fetch_data is made only once the job was observed DONE with no error.
C4_Sequential ==
    script = "async" =>
        /\ \A i \in Positions("begin") : i = 1
        /\ trace # <<>> => trace[1].op = "begin"
        /\ \A i \in Positions("reload"), j \in Positions("fetch") : i < j
        /\ Count("fetch") > 0 =>
              /\ Count("reload") > 0
              /\ job.state = "DONE"
              /\ Falsy(job.error_result)

C4_Witness ==
    /\ script = "async"
    /\ pc = "done"
    /\ Count("reload") = 3
    /\ Count("fetch") = 2

\* C5 as stated: a run that paginates has made exactly one submission
\* request (begin or run).
C5_Original ==
    Paginating => Len(Submissions) = 1

\* C5 amended: a run of async main that paginates has made exactly one
\* begin(), of the variant use_named_params selects; a call of
\* sync_query_params that paginates has made exactly two run() calls, the
\* positional query and then the named query.
C5_Submissions ==
    Paginating =>
        IF script = "async"
        THEN Submissions =
               <<Event("begin",
                       IF use_named_params THEN "named" ELSE "positional", 0)>>
        ELSE Submissions =
               <<Event("run", "positional", 0), Event("run", "named", 0)>>

C5_Witness ==
    script = "sync" /\ pc = "done" /\ Count("print") > 0

\* C6: the rows printed between two consecutive fetch_data calls are exactly
\* the rows of the page the first of them returned, so page k is printed in
\* full before page k+1 is requested; and the loop's `rows` is never more
\* than one page of the result set.
C6_PageByPage ==
    /\ \A f1 \in Positions("fetch"), f2 \in Positions("fetch") :
          ConsecutiveFetches(f1, f2) =>
              PrintedBetween(f1, f2) = Returned(f1).rows
    /\ rows = <<>> \/ \E k \in 1..Len(pages) : rows = pages[k].rows

C6_Witness ==
    /\ pc = "fetch"
    /\ Count("fetch") = 2
    /\ PrintedRows = <<1, 2, 3>>
    /\ Len(pages[1].rows) = 2

\* C7: once a collaborator call has raised a transport error, the run makes
\* no further call, wait or print (the trace and the position are frozen).
C7_ErrorAborts ==
    [][exc.kind = "TransportError" => (trace' = trace /\ pc' = pc)]_vars

C7_Witness ==
    /\ exc.kind = "TransportError"
    /\ trace[Len(trace)].op = "fetch"
    /\ Count("reload") = 2
    /\ Count("print") = 2

\* C9: while the last observed job state is not DONE an async run is still
\* inside the poll loop (or was ended by a transport error): it has neither
\* returned from wait_for_job nor raised the job failure, also when an error
\* payload came with the non-DONE state; a non-DONE observation always leads
\* to the sleep, whatever the number of checks made, and status checks and
\* sleeps alternate.
C9_DoneOnlyExit ==
    /\ (script = "async" /\ job.state \in {"PENDING", "RUNNING"}) =>
          \/ pc \in {"reload", "check", "sleep"}
          \/ exc.kind = "TransportError"
    /\ (pc = "check" /\ job.state # "DONE") =>
          /\ ENABLED WaitContinue
          /\ ~ENABLED WaitReturn
          /\ ~ENABLED WaitRaise
    /\ pc = "sleep" => (job.state # "DONE" /\ Count("reload") = Count("sleep") + 1)
    /\ pc = "reload" => Count("reload") = Count("sleep")
    /\ exc.kind \in {None, "RuntimeError", "TransportError"}

C9_Witness ==
    /\ pc = "sleep"
    /\ job.state = "RUNNING"
    /\ job.error_result = "E1"
    /\ nPending = MaxPending

\* C10: the first fetch_data call carries no token, every later one carries
\* the token the preceding call returned, every call asks for 10 rows, a
\* finished loop has made at least one call, and the loop has ended exactly
\* when the last returned token is absent or empty.
C10_TokenThreading ==
    /\ \A f \in Positions("fetch") :
          /\ trace[f].n = 10
          /\ (\A g \in Positions("fetch") : f <= g) => trace[f].a = None
    /\ \A f1 \in Positions("fetch"), f2 \in Positions("fetch") :
          ConsecutiveFetches(f1, f2) =>
              /\ trace[f2].a = Returned(f1).token
              /\ ~Falsy(Returned(f1).token)
    /\ pc = "done" =>
          /\ Count("fetch") >= 1
          /\ \A f \in Positions("fetch") :
                (\A g \in Positions("fetch") : g <= f) =>
                    Falsy(Returned(f).token)
    /\ (pc = "fetch" /\ Count("fetch") > 0) => ~Falsy(page_token)

C10_Witness ==
    /\ pc = "done"
    /\ Count("fetch") = 3
    /\ Len(pages[2].rows) = 0
    /\ Len(pages[3].rows) = 2
    /\ page_token = EmptyStr

====
